---------------------------- MODULE Spec2Model ----------------------------
(***************************************************************************)
(* The analysis request processing engine of code_checker: the in-memory   *)
(* analysis queue, the worker pool (analysis_worker), the analysis         *)
(* semaphore, the parallel attempt scheduler (process_analysis_request),   *)
(* the request status life cycle, the admin retry / batch retry /          *)
(* regenerate endpoints and the startup handling of interrupted requests.  *)
(*                                                                         *)
(* Every worker action is one stretch of code between two awaits of the    *)
(* coroutine: asyncio runs such a stretch without interleaving.            *)
(***************************************************************************)
EXTENDS Integers, Sequences, FiniteSets, TLC

(***************************************************************************)
(* Bounds of the model.                                                    *)
(***************************************************************************)
MaxReq == 2        \* request ids 1..MaxReq may exist
MaxConc == 2       \* largest configured MAX_CONCURRENT_ANALYSIS_TASKS
MaxQueue == 3      \* ids waiting in the analysis queue
MaxOps == 2        \* API events (create, regenerate, retry, batch retry)
MaxPar == 2        \* largest configured parallel_openai_requests_per_prompt
MaxTot == 3        \* largest configured max_total_openai_attempts_per_prompt
MaxBoot == 4       \* rows in the request table when the process starts
MaxBoots == 2      \* process starts
MaxKeys == 2       \* API keys an administrator may store
MaxBelow == 1     \* MAX_CONCURRENT_ANALYSIS_TASKS is configured from -MaxBelow upwards

Ids == 1..MaxReq
Workers == 1..MaxConc

VARIABLES
    requests,    \* the request table: id -> row (status "Absent": no such row)
    queue,       \* app.state.analysis_queue: ids not yet dequeued
    unfinished,  \* the queue's count of items put and not yet task_done
    permits,     \* free permits of analysis_task_semaphore
    capacity,    \* _analysis_task_limit, the semaphore's capacity
    wk,          \* per worker loop: position and locals of process_analysis_request
    settings,    \* the settings table as get_all_settings_as_dict returns it
    notes,       \* per request id: the request_updated messages delivered
    phase,       \* "boot", "reconciled", "running", "draining", "stopping"
    limit,       \* app_settings.MAX_CONCURRENT_ANALYSIS_TASKS
    ops,         \* API events handled so far
    boots,       \* process starts (runs of lifespan) so far
    client_instance  \* openai_processor._client_instance: the shared API client

vars == <<requests, queue, unfinished, permits, capacity, wk, settings, notes, phase, limit, ops, boots, client_instance>>

(***************************************************************************)
(* Values.                                                                 *)
(***************************************************************************)
\* RequestStatus, plus "Absent" for an id with no row.
QUEUED == "Queued"
PROCESSING == "Processing"
COMPLETED == "Completed"
FAILED == "Failed"
RequestStatus == {QUEUED, PROCESSING, COMPLETED, FAILED}

None == 0   \* Python None for a payload; a payload is the number of its attempt

\* An error message: its fixed wording (kind), the exception class or text it
\* interpolates (arg) and the number it interpolates (n).
Msg(kind, arg, n) == [kind |-> kind, arg |-> arg, n |-> n]
NoMsg == Msg("none", "", 0)

AbsentRow == [status |-> "Absent", error_message |-> NoMsg,
              gpt_raw_response |-> None, is_success |-> FALSE]
\* A freshly created row: the column defaults of the Request model.
Request == [status |-> QUEUED, error_message |-> NoMsg,
            gpt_raw_response |-> None, is_success |-> FALSE]

\* The openai_api_key and openai_base_url settings: not set, or one of the
\* values 1, 2, ... an administrator may store.
NoKey == 0
NoUrl == 0

\* An AsyncOpenAI client, as constructed with an api_key and a base_url;
\* NoClient: none was constructed (None).
Client(api_key, base_url) == [api_key |-> api_key, base_url |-> base_url]
NoClient == Client(NoKey, NoUrl)

\* A stored setting that should hold an integer: an integer text, another text,
\* or no row at all.
IntText(v) == [k |-> "int", v |-> v]
BadText == [k |-> "bad", v |-> 0]
Missing == [k |-> "missing", v |-> 0]

(***************************************************************************)
(* Pure helpers of process_analysis_request.                               *)
(***************************************************************************)
\* int(db_settings.get(key, default)), below 1 raised to 1, unparsable: default.
parallel_requests(s) ==
    IF s.parallel.k = "int" THEN (IF s.parallel.v < 1 THEN 1 ELSE s.parallel.v) ELSE 1

ParsedTotal(s) ==
    IF s.total.k = "int" THEN (IF s.total.v < 1 THEN 1 ELSE s.total.v) ELSE 3

\* The copies taken before the "at least parallel requests" adjustment: these are
\* the values the scheduling loop reads.
final_parallel_requests(s) == parallel_requests(s)

final_total_attempts_limit(s) == ParsedTotal(s)

\* The adjusted limit, assigned after the copies were taken.
total_attempts_limit(s) ==
    IF ParsedTotal(s) < parallel_requests(s) THEN parallel_requests(s) ELSE ParsedTotal(s)

(***************************************************************************)
(* OpenAIProcessor.analyze_code: one attempt, as a function of the         *)
(* settings snapshot and of what the API answers.                          *)
(***************************************************************************)
\* What the API answers: content that is a JSON value other than null ("json"),
\* content that is the JSON text null, content that is no JSON ("garbage"), no
\* content ("empty"), or one of the errors the client raises.
ApiResponses == {"json", "null", "garbage", "empty", "APIConnectionError",
                 "RateLimitError", "APITimeoutError", "APIStatusError"}

\* (parsed_json, raw_response_text, exception_occurred); raised: the coroutine
\* raised instead of returning.
Outcome(raised, parsed, raw, exc) ==
    [raised |-> raised, parsed |-> parsed, raw |-> raw, exc |-> exc]
NoOutcome == Outcome(FALSE, None, FALSE, "none")

analyze_code(s, resp, attempt_num) ==
    IF ~s.system_prompt THEN Outcome(TRUE, None, FALSE, "ValueError")
    ELSE IF s.openai_api_key = NoKey THEN Outcome(FALSE, None, FALSE, "ValueError")
    ELSE IF ~s.openai_model THEN Outcome(FALSE, None, FALSE, "ValueError")
    ELSE IF resp = "json" THEN Outcome(FALSE, attempt_num, TRUE, "none")
    ELSE IF resp = "null" THEN Outcome(FALSE, None, TRUE, "none")
    ELSE IF resp = "garbage" THEN Outcome(FALSE, None, TRUE, "none")
    ELSE IF resp = "empty" THEN Outcome(FALSE, None, FALSE, "ValueError")
    ELSE Outcome(FALSE, None, FALSE, resp)

\* An asyncio task of one attempt.
Task(st, out) == [st |-> st, out |-> out]

(***************************************************************************)
(* The scheduling loop of process_analysis_request, on the loop's locals   *)
(* l = [tasks, active_tasks, first_valid_result, final_error_message].     *)
(* tasks holds every task created so far: total_attempts_made = Len(tasks).*)
(***************************************************************************)
total_attempts_made(l) == Len(l.tasks)

\* Faulty variant of the inner while loop, launching while at (not below) the
\* parallel limit: C1_AttemptBounds tells it from LaunchTasks.
RECURSIVE LaunchTasksInclusive(_, _, _)
LaunchTasksInclusive(l, N, M) ==
    IF Cardinality(l.active_tasks) <= N /\ total_attempts_made(l) < M
    THEN LaunchTasksInclusive([l EXCEPT !.tasks = Append(@, Task("running", NoOutcome)),
                                        !.active_tasks = @ \cup {Len(l.tasks) + 1}], N, M)
    ELSE l

\* Faulty variant of the inner while loop that fills up to the parallel limit
\* whatever the total limit: C20_ParallelismWithinTotal tells it from LaunchTasks.
RECURSIVE LaunchTasksToParallel(_, _, _)
LaunchTasksToParallel(l, N, M) ==
    IF Cardinality(l.active_tasks) < N
    THEN LaunchTasksToParallel([l EXCEPT !.tasks = Append(@, Task("running", NoOutcome)),
                                         !.active_tasks = @ \cup {Len(l.tasks) + 1}], N, M)
    ELSE l

\* Faulty variant of the inner while loop that creates at most one task each
\* time round the outer loop: C32_RefilledBeforeWait tells it from LaunchTasks.
LaunchTasksOnce(l, N, M) ==
    IF Cardinality(l.active_tasks) < N /\ total_attempts_made(l) < M
    THEN [l EXCEPT !.tasks = Append(@, Task("running", NoOutcome)),
                   !.active_tasks = @ \cup {Len(l.tasks) + 1}]
    ELSE l

\* The inner while loop: create tasks while below the parallel and total limits.
RECURSIVE LaunchTasks(_, _, _)
LaunchTasks(l, N, M) ==
    IF Cardinality(l.active_tasks) < N /\ total_attempts_made(l) < M
    THEN LaunchTasks([l EXCEPT !.tasks = Append(@, Task("running", NoOutcome)),
                               !.active_tasks = @ \cup {Len(l.tasks) + 1}], N, M)
    ELSE l

\* p_task.cancel() on each of a set of tasks: a finished task stays finished.
CancelTasks(tasks, S) ==
    [a \in DOMAIN tasks |->
        IF a \in S /\ tasks[a].st = "running" THEN Task("cancelled", NoOutcome)
        ELSE tasks[a]]

\* Faulty variant of the loop body that leaves the pending tasks running after a
\* valid result: C5_SoleFinisherWins tells it from InspectTask.
InspectTaskNoCancel(l, a, pending) ==
    LET o == l.tasks[a].out
        l1 == [l EXCEPT !.active_tasks = @ \ {a}]
    IN  IF o.raised
        THEN [l1 EXCEPT !.final_error_message = Msg("Internal error processing attempt", o.exc, a)]
        ELSE IF o.parsed # None
        THEN [l1 EXCEPT !.first_valid_result = o.parsed, !.final_error_message = NoMsg]
        ELSE IF o.exc = "none"
        THEN [l1 EXCEPT !.final_error_message =
                            Msg("Failed to parse valid JSON response from OpenAI.", "", 0)]
        ELSE [l1 EXCEPT !.final_error_message = Msg("API call failed", o.exc, 0)]

\* Faulty variant of the loop body that keeps the message of the first failure:
\* C28_MessageOfLastFailure tells it from InspectTask.
InspectTaskKeepFirst(l, a, pending) ==
    LET o == l.tasks[a].out
        l1 == [l EXCEPT !.active_tasks = @ \ {a}]
    IN  IF o.parsed # None
        THEN [l1 EXCEPT !.first_valid_result = o.parsed,
                        !.final_error_message = NoMsg,
                        !.tasks = CancelTasks(@, pending)]
        ELSE IF l.final_error_message # NoMsg THEN l1
        ELSE IF o.raised
        THEN [l1 EXCEPT !.final_error_message = Msg("Internal error processing attempt", o.exc, a)]
        ELSE IF o.exc = "none"
        THEN [l1 EXCEPT !.final_error_message =
                            Msg("Failed to parse valid JSON response from OpenAI.", "", 0)]
        ELSE [l1 EXCEPT !.final_error_message = Msg("API call failed", o.exc, 0)]

\* The body of "for task in done" for one task.
InspectTask(l, a, pending) ==
    LET o == l.tasks[a].out
        l1 == [l EXCEPT !.active_tasks = @ \ {a}]
    IN  IF o.raised
        THEN [l1 EXCEPT !.final_error_message = Msg("Internal error processing attempt", o.exc, a)]
        ELSE IF o.parsed # None
        THEN [l1 EXCEPT !.first_valid_result = o.parsed,
                        !.final_error_message = NoMsg,
                        !.tasks = CancelTasks(@, pending)]
        ELSE IF o.exc = "none"
        THEN [l1 EXCEPT !.final_error_message =
                            Msg("Failed to parse valid JSON response from OpenAI.", "", 0)]
        ELSE [l1 EXCEPT !.final_error_message = Msg("API call failed", o.exc, 0)]

\* "for task in done", in the iteration order given; the break after a valid
\* result leaves the rest of done uninspected and still in active_tasks.
RECURSIVE InspectDone(_, _, _, _)
InspectDone(l, order, i, pending) ==
    IF i > Len(order) THEN l
    ELSE LET l1 == InspectTask(l, order[i], pending)
         IN  IF l1.first_valid_result # None THEN l1
             ELSE InspectDone(l1, order, i + 1, pending)

\* From the top of the outer while loop to its next await: launch, then either
\* wait or leave the loop.
LoopTop(l, N, M) ==
    IF total_attempts_made(l) < M /\ l.first_valid_result = None
    THEN LET l1 == LaunchTasks(l, N, M)
         IN  IF l1.active_tasks = {} THEN [l |-> l1, pc |-> "final_update"]
             ELSE [l |-> l1, pc |-> "wait"]
    ELSE [l |-> l, pc |-> "final_update"]

\* After the wait returned done: inspect, then leave on success or loop.
AfterWait(l, order, pending, N, M) ==
    LET l1 == InspectDone(l, order, 1, pending)
    IN  IF l1.first_valid_result # None THEN [l |-> l1, pc |-> "final_update"]
        ELSE LoopTop(l1, N, M)

\* Step 5: the final status and message.
final_status(l) == IF l.first_valid_result # None THEN COMPLETED ELSE FAILED

\* Faulty variant of step 5 that clears the message whatever the outcome:
\* C4_AllAttemptsFail tells it from FinalErrorMessage.
ClearedErrorMessage(l, M) == NoMsg

FinalErrorMessage(l, M) ==
    IF l.first_valid_result # None THEN NoMsg
    ELSE IF l.final_error_message = NoMsg
    THEN Msg("Failed to get valid JSON response after attempts", "", M)
    ELSE l.final_error_message

(***************************************************************************)
(* CRUD helpers.                                                           *)
(***************************************************************************)
\* The update_data of crud_request.update_status: the message is set when one
\* is given, cleared when none is given and the status is not Failed, and left
\* out otherwise.
status_update_data(status, error_message) ==
    IF error_message # NoMsg THEN [status |-> status, error_message |-> error_message]
    ELSE IF status # FAILED THEN [status |-> status, error_message |-> NoMsg]
    ELSE [status |-> status]

\* CRUDBase.update on an object its session loaded earlier: setattr for each
\* field of update_data, then the commit flushes an UPDATE of the columns whose
\* value differs from the one the session loaded; the other columns of the row
\* stay as the database has them.
update(loaded, row, update_data) ==
    [f \in DOMAIN row |->
        IF f \in DOMAIN update_data /\ update_data[f] # loaded[f] THEN update_data[f]
        ELSE row[f]]

\* crud_request.update_status on an object loaded in the same step, so that
\* the session holds the row as the database has it.
update_status(row, status, error_message) ==
    update(row, row, status_update_data(status, error_message))

\* ws_manager.broadcast_request_updated(request_id, status, updated_at, error_message).
broadcast_request_updated(n, request_id, status, error_message) ==
    [n EXCEPT ![request_id] = Append(@, [status |-> status, error_message |-> error_message])]


(***************************************************************************)
(* The worker loops.                                                       *)
(***************************************************************************)
NoSettings == [parallel |-> Missing, total |-> Missing, openai_api_key |-> NoKey,
               openai_base_url |-> NoUrl, openai_model |-> FALSE, system_prompt |-> FALSE]

\* A worker loop's locals when it holds no request; loaded is the row as the
\* worker's session loaded it last, from the refresh before its first write on
\* (expire_on_commit is off). Three fields are history:
\* done_order, the attempts in the order their tasks finished, and
\* last_inspected, the attempt whose result the loop read last (both kept under
\* SpecSched), and client_at_load, the shared client as it was when the
\* settings were loaded (kept under SpecConf).
Locals(pc) == [pc |-> pc, request_id |-> 0, request |-> FALSE, db_settings |-> NoSettings,
               tasks |-> <<>>, active_tasks |-> {}, first_valid_result |-> None,
               final_error_message |-> NoMsg, done_order |-> <<>>,
               client_at_load |-> NoClient, last_inspected |-> 0, loaded |-> AbsentRow]

\* The positions at which the worker holds a permit of the semaphore.
InsidePcs == {"fetch", "load_settings", "refresh", "set_processing", "notify_processing",
              "wait", "final_update", "final_notify", "critical", "critical_notify", "exit"}

\* The positions between the write of Processing and the terminal write.
LeasePcs == {"notify_processing", "wait", "final_update"}

Row(w) == requests[wk[w].request_id]

Goto(w, pc) == wk' = [wk EXCEPT ![w].pc = pc]

\* The orders in which a set may be iterated.
Orders(S) == {o \in [1..Cardinality(S) -> S] : \A i, j \in 1..Cardinality(S) : o[i] = o[j] => i = j}

\* analysis_worker: request_id = await queue.get()
Dequeue(w) ==
    /\ phase \in {"running", "draining"}
    /\ wk[w].pc = "get"
    /\ queue # <<>>
    /\ wk' = [wk EXCEPT ![w].pc = "acquire", ![w].request_id = Head(queue)]
    /\ queue' = Tail(queue)
    /\ UNCHANGED <<requests, unfinished, permits, capacity, settings, notes, phase, limit, ops, boots, client_instance>>

\* asyncio.Semaphore.acquire: proceed only when a permit is free.
CanAcquire == permits > 0

\* async with analysis_task_semaphore
Acquire(w) ==
    /\ phase \in {"running", "draining"}
    /\ wk[w].pc = "acquire"
    /\ CanAcquire
    /\ permits' = permits - 1
    /\ Goto(w, "fetch")
    /\ UNCHANGED <<requests, queue, unfinished, capacity, settings, notes, phase, limit, ops, boots, client_instance>>

\* The two status checks: only Queued and Failed requests are processed.
MayProcess(status) == status \in {QUEUED, FAILED}

\* 1. get_or_404 and the first status check. A missing row raises NotFoundError
\* into the critical handler, which cannot mark a request it never loaded.
Fetch(w) ==
    /\ phase \in {"running", "draining"}
    /\ wk[w].pc = "fetch"
    /\ IF Row(w).status = "Absent" THEN Goto(w, "exit")
       ELSE IF ~MayProcess(Row(w).status)
       THEN wk' = [wk EXCEPT ![w].pc = "exit", ![w].request = TRUE]
       ELSE wk' = [wk EXCEPT ![w].pc = "load_settings", ![w].request = TRUE]
    /\ UNCHANGED <<requests, queue, unfinished, permits, capacity, settings, notes, phase, limit, ops, boots, client_instance>>

\* get_or_404 raises a database error: the critical handler has no request.
FetchFails(w) ==
    /\ phase \in {"running", "draining"}
    /\ wk[w].pc = "fetch"
    /\ Goto(w, "exit")
    /\ UNCHANGED <<requests, queue, unfinished, permits, capacity, settings, notes, phase, limit, ops, boots, client_instance>>

\* 2. db_settings = await crud_setting.get_all_settings_as_dict(db)
\* With history set, the shared client of that moment is recorded.
LoadSettings(w, history) ==
    /\ phase \in {"running", "draining"}
    /\ wk[w].pc = "load_settings"
    /\ wk' = [wk EXCEPT ![w].pc = "refresh", ![w].db_settings = settings,
                         ![w].client_at_load = IF history THEN client_instance ELSE @]
    /\ UNCHANGED <<requests, queue, unfinished, permits, capacity, settings, notes, phase, limit, ops, boots, client_instance>>

LoadSettingsFails(w) ==
    /\ phase \in {"running", "draining"}
    /\ wk[w].pc = "load_settings"
    /\ Goto(w, "critical")
    /\ UNCHANGED <<requests, queue, unfinished, permits, capacity, settings, notes, phase, limit, ops, boots, client_instance>>

\* 3. await db.refresh(request) and the second status check.
RefreshCheck(w) ==
    /\ phase \in {"running", "draining"}
    /\ wk[w].pc = "refresh"
    /\ wk' = [wk EXCEPT ![w].pc = IF MayProcess(Row(w).status) THEN "set_processing" ELSE "exit",
                         ![w].loaded = Row(w)]
    /\ UNCHANGED <<requests, queue, unfinished, permits, capacity, settings, notes, phase, limit, ops, boots, client_instance>>

\* crud_request.update_status(db, db_obj=request, status=PROCESSING)
UpdateProcessing(w) ==
    /\ phase \in {"running", "draining"}
    /\ wk[w].pc = "set_processing"
    /\ requests' = [requests EXCEPT ![wk[w].request_id] =
                        update(wk[w].loaded, @, status_update_data(PROCESSING, NoMsg))]
    /\ wk' = [wk EXCEPT ![w].pc = "notify_processing",
                         ![w].loaded = requests'[wk[w].request_id]]
    /\ UNCHANGED <<queue, unfinished, permits, capacity, settings, notes, phase, limit, ops, boots, client_instance>>

UpdateProcessingFails(w) ==
    /\ phase \in {"running", "draining"}
    /\ wk[w].pc = "set_processing"
    /\ Goto(w, "critical")
    /\ UNCHANGED <<requests, queue, unfinished, permits, capacity, settings, notes, phase, limit, ops, boots, client_instance>>

\* The refresh and broadcast after the Processing update, then the scheduling
\* loop up to its first asyncio.wait.
NotifyProcessing(w) ==
    /\ phase \in {"running", "draining"}
    /\ wk[w].pc = "notify_processing"
    /\ notes' = broadcast_request_updated(notes, wk[w].request_id, Row(w).status, Row(w).error_message)
    /\ LET N == final_parallel_requests(wk[w].db_settings)
           M == final_total_attempts_limit(wk[w].db_settings)
           r == LoopTop(wk[w], N, M)
       IN  wk' = [wk EXCEPT ![w] = [r.l EXCEPT !.pc = r.pc, !.loaded = Row(w)]]
    /\ UNCHANGED <<requests, queue, unfinished, permits, capacity, settings, phase, limit, ops, boots, client_instance>>

\* OpenAIProcessor._get_client: the client at hand is returned as it is; only
\* when there is none is one constructed, with the api_key and base_url given.
get_client(instance, api_key, base_url) ==
    IF instance # NoClient THEN instance ELSE Client(api_key, base_url)

\* analyze_code reaches the API call, and so _get_client, when the snapshot has
\* the prompt, the key and the model.
CallsApi(s) == s.system_prompt /\ s.openai_api_key # NoKey /\ s.openai_model

\* The task of attempt a of worker w finishes: analyze_code returns or raises,
\* after its call of the API through the client _get_client gave it.
\* With history set, the order of completion is recorded in done_order.
AttemptFinish(w, a, resp, history) ==
    /\ a \in DOMAIN wk[w].tasks
    /\ wk[w].tasks[a].st = "running"
    /\ wk' = [wk EXCEPT ![w].tasks[a] = Task("done", analyze_code(wk[w].db_settings, resp, a)),
                         ![w].done_order = IF history THEN Append(@, a) ELSE @]
    /\ client_instance' =
           IF CallsApi(wk[w].db_settings)
           THEN get_client(client_instance, wk[w].db_settings.openai_api_key,
                           wk[w].db_settings.openai_base_url)
           ELSE client_instance
    /\ UNCHANGED <<requests, queue, unfinished, permits, capacity, settings, notes, phase, limit, ops, boots>>

\* The tasks asyncio.wait returns as done: the active ones that have finished.
DoneTasks(w) == {a \in wk[w].active_tasks : wk[w].tasks[a].st = "done"}

\* The task "for task in done" reads last when it iterates in the given order:
\* the first one with a valid result, where it breaks, or else the last one.
LastInspected(l, order) ==
    LET hits == {i \in 1..Len(order) : l.tasks[order[i]].out.parsed # None}
    IN  IF hits = {} THEN order[Len(order)]
        ELSE order[CHOOSE i \in hits : \A j \in hits : i <= j]

\* asyncio.wait(..., FIRST_COMPLETED) returns; done is inspected in the order
\* the set iterates, then the loop launches replacements or ends.
\* With history set, the attempt read last is recorded in last_inspected.
Inspect(w, order, history) ==
    /\ phase \in {"running", "draining"}
    /\ wk[w].pc = "wait"
    /\ DoneTasks(w) # {}
    /\ order \in Orders(DoneTasks(w))
    /\ LET N == final_parallel_requests(wk[w].db_settings)
           M == final_total_attempts_limit(wk[w].db_settings)
           r == AfterWait(wk[w], order, wk[w].active_tasks \ DoneTasks(w), N, M)
       IN  wk' = [wk EXCEPT ![w] = [r.l EXCEPT !.pc = r.pc,
                                               !.last_inspected =
                                                   IF history THEN LastInspected(wk[w], order)
                                                   ELSE @]]
    /\ UNCHANGED <<requests, queue, unfinished, permits, capacity, settings, notes, phase, limit, ops, boots, client_instance>>

\* 5. The terminal update: status, error_message, gpt_raw_response, is_success.
FinalRow(l, M) ==
    [status |-> final_status(l), error_message |-> FinalErrorMessage(l, M),
     gpt_raw_response |-> l.first_valid_result, is_success |-> l.first_valid_result # None]

FinalUpdate(w) ==
    /\ phase \in {"running", "draining"}
    /\ wk[w].pc = "final_update"
    /\ requests' = [requests EXCEPT ![wk[w].request_id] =
                        update(wk[w].loaded, @,
                               FinalRow(wk[w], final_total_attempts_limit(wk[w].db_settings)))]
    /\ wk' = [wk EXCEPT ![w].pc = "final_notify",
                         ![w].loaded = requests'[wk[w].request_id]]
    /\ UNCHANGED <<queue, unfinished, permits, capacity, settings, notes, phase, limit, ops, boots, client_instance>>

FinalUpdateFails(w) ==
    /\ phase \in {"running", "draining"}
    /\ wk[w].pc = "final_update"
    /\ Goto(w, "critical")
    /\ UNCHANGED <<requests, queue, unfinished, permits, capacity, settings, notes, phase, limit, ops, boots, client_instance>>

\* The refresh and broadcast after the terminal update.
FinalNotify(w) ==
    /\ phase \in {"running", "draining"}
    /\ wk[w].pc = "final_notify"
    /\ notes' = broadcast_request_updated(notes, wk[w].request_id, Row(w).status, Row(w).error_message)
    /\ Goto(w, "exit")
    /\ UNCHANGED <<requests, queue, unfinished, permits, capacity, settings, phase, limit, ops, boots, client_instance>>

\* except Exception: refresh the request and mark it Failed if it is Processing.
Critical(w) ==
    /\ phase \in {"running", "draining"}
    /\ wk[w].pc = "critical"
    /\ IF Row(w).status = PROCESSING
       THEN /\ requests' = [requests EXCEPT ![wk[w].request_id] =
                   update_status(@, FAILED, Msg("Critical background processing error", "DBError", 0))]
            /\ Goto(w, "critical_notify")
       ELSE /\ Goto(w, "exit")
            /\ UNCHANGED requests
    /\ UNCHANGED <<queue, unfinished, permits, capacity, settings, notes, phase, limit, ops, boots, client_instance>>

CriticalNotify(w) ==
    /\ phase \in {"running", "draining"}
    /\ wk[w].pc = "critical_notify"
    /\ notes' = broadcast_request_updated(notes, wk[w].request_id, Row(w).status, Row(w).error_message)
    /\ Goto(w, "exit")
    /\ UNCHANGED <<requests, queue, unfinished, permits, capacity, settings, phase, limit, ops, boots, client_instance>>

\* Faulty variant in which the error of a broadcast is raised on, into the outer
\* handler of process_analysis_request: C23_BroadcastErrorContained tells it from
\* BroadcastErrorLogged.
BroadcastErrorRaised(caught, raised) == raised

\* "except Exception" around each broadcast: the error is logged and the code
\* goes on as it does after a broadcast that returned (caught), not into the
\* outer handler (raised).
BroadcastErrorLogged(caught, raised) == caught

\* The broadcast after the Processing update raises: nothing is sent, and the
\* scheduling loop runs up to its first asyncio.wait.
NotifyProcessingFails(w) ==
    /\ phase \in {"running", "draining"}
    /\ wk[w].pc = "notify_processing"
    /\ LET N == final_parallel_requests(wk[w].db_settings)
           M == final_total_attempts_limit(wk[w].db_settings)
           r == BroadcastErrorLogged(LoopTop(wk[w], N, M), [l |-> wk[w], pc |-> "critical"])
       IN  wk' = [wk EXCEPT ![w] = [r.l EXCEPT !.pc = r.pc]]
    /\ UNCHANGED <<requests, queue, unfinished, permits, capacity, settings, notes, phase, limit, ops, boots, client_instance>>

\* The broadcast after the terminal update raises: nothing is sent.
FinalNotifyFails(w) ==
    /\ phase \in {"running", "draining"}
    /\ wk[w].pc = "final_notify"
    /\ LET r == BroadcastErrorLogged([l |-> wk[w], pc |-> "exit"], [l |-> wk[w], pc |-> "critical"])
       IN  wk' = [wk EXCEPT ![w] = [r.l EXCEPT !.pc = r.pc]]
    /\ UNCHANGED <<requests, queue, unfinished, permits, capacity, settings, notes, phase, limit, ops, boots, client_instance>>

\* The broadcast of the exception handler raises: its own handler logs it.
CriticalNotifyFails(w) ==
    /\ phase \in {"running", "draining"}
    /\ wk[w].pc = "critical_notify"
    /\ Goto(w, "exit")
    /\ UNCHANGED <<requests, queue, unfinished, permits, capacity, settings, notes, phase, limit, ops, boots, client_instance>>

\* Faulty variant of leaving the semaphore that keeps the permit:
\* C7_PermitsBalance tells it from Release.
KeepPermit(p) == p

\* Leaving "async with analysis_task_semaphore": the permit goes back.
Release(p) == p + 1

\* Faulty variant of the worker's finally block that does not acknowledge the
\* queue item: C34_AcknowledgedOnce tells it from task_done.
TaskDoneSkipped(n) == n

\* queue.task_done(): one unfinished item less.
task_done(n) == n - 1

\* Faulty variant of the worker loop that ends after the item it handled:
\* C16_WorkerSurvives tells it from NextIteration.
LoopEnds == "stopped"

\* analysis_worker's "while True": after task_done the loop awaits queue.get().
NextIteration == "get"

\* finally: cancel what is left in active_tasks; the session and the semaphore
\* are left; analysis_worker calls queue.task_done() and loops.
Exit(w) ==
    /\ phase \in {"running", "draining"}
    /\ wk[w].pc = "exit"
    /\ permits' = Release(permits)
    /\ unfinished' = task_done(unfinished)
    /\ wk' = [wk EXCEPT ![w] = Locals(NextIteration)]
    /\ UNCHANGED <<requests, queue, capacity, settings, notes, phase, limit, ops, boots, client_instance>>

\* Faulty variant in which the exception handler of process_analysis_request
\* catches the CancelledError as well and fails a row that is Processing:
\* C27_ShutdownCancels tells it from OnCancelled.
CancelledHandled(row) ==
    IF row.status = PROCESSING
    THEN update_status(row, FAILED, Msg("Critical background processing error", "CancelledError", 0))
    ELSE row

\* The row of the request a cancelled worker holds: CancelledError is no
\* Exception, so "except Exception" does not handle it and nothing is written.
OnCancelled(row) == row

\* The worker task is cancelled at its current await: CancelledError passes the
\* "except Exception" handlers, the finally blocks run (the tasks left in
\* active_tasks are cancelled, the semaphore is left, task_done is called) and
\* the loop breaks.
WorkerCancelled(w) ==
    /\ phase = "stopping"
    /\ wk[w].pc \notin {"unstarted", "stopped"}
    /\ permits' = IF wk[w].pc \in InsidePcs THEN Release(permits) ELSE permits
    /\ unfinished' = IF wk[w].pc = "get" THEN unfinished ELSE task_done(unfinished)
    /\ requests' = IF wk[w].request
                   THEN [requests EXCEPT ![wk[w].request_id] = OnCancelled(@)]
                   ELSE requests
    /\ wk' = [wk EXCEPT ![w] = Locals("stopped")]
    /\ UNCHANGED <<queue, capacity, settings, notes, phase, limit, ops, boots, client_instance>>

(***************************************************************************)
(* The API handlers that create, regenerate and retry requests.            *)
(***************************************************************************)
Exists(id) == requests[id].status # "Absent"

\* The id the database gives the next row.
NewId == CHOOSE id \in Ids : ~Exists(id) /\ \A j \in Ids : ~Exists(j) => id <= j

\* await queue.put(id), for each id of a list in turn.
RECURSIVE PutAll(_, _)
PutAll(q, ids) == IF ids = <<>> THEN q ELSE PutAll(Append(q, Head(ids)), Tail(ids))

\* RequestService._handle_request_post_creation: the id is put on the queue.
handle_request_post_creation(q, id) == PutAll(q, <<id>>)

\* POST /requests: RequestService.create_request.
CreateRequest ==
    /\ phase = "running"
    /\ ops < MaxOps
    /\ \E id \in Ids : ~Exists(id)
    /\ Len(queue) + 1 <= MaxQueue
    /\ requests' = [requests EXCEPT ![NewId] = Request]
    /\ queue' = handle_request_post_creation(queue, NewId)
    /\ unfinished' = unfinished + (Len(queue') - Len(queue))
    /\ ops' = ops + 1
    /\ UNCHANGED <<permits, capacity, wk, settings, notes, phase, limit, boots, client_instance>>

\* The queue after regenerate_request_analysis: the service's post-creation step
\* puts the new id, and after the commit the endpoint puts it as well.
regenerate_request_analysis(q, id) == PutAll(handle_request_post_creation(q, id), <<id>>)

\* POST /requests/{request_id}/regenerate: a new row copied from an existing one.
Regenerate(original_request_id) ==
    /\ phase = "running"
    /\ ops < MaxOps
    /\ Exists(original_request_id)
    /\ \E id \in Ids : ~Exists(id)
    /\ Len(queue) + 2 <= MaxQueue
    /\ requests' = [requests EXCEPT ![NewId] = Request]
    /\ queue' = regenerate_request_analysis(queue, NewId)
    /\ unfinished' = unfinished + (Len(queue') - Len(queue))
    /\ ops' = ops + 1
    /\ UNCHANGED <<permits, capacity, wk, settings, notes, phase, limit, boots, client_instance>>

\* Faulty variant of the check of retry_request_analysis that refuses a request
\* that is not Failed: C36_RetryAnyBatchOnlyFailed tells it from RetryAllowed.
RetryOnlyFailed(status) == status = FAILED

\* retry_request_analysis goes on whatever the status is: the check only logs.
RetryAllowed(status) == TRUE

\* The parameters of broadcast_request_updated besides self, all required.
BroadcastParameters == 4

\* The arguments the retry endpoints give it: request_data, one dict.
RetryBroadcastArguments == 1

\* A call of broadcast_request_updated made inside "try ... except Exception":
\* with an argument missing, Python raises TypeError before the body runs, the
\* handler logs it and nothing is sent.
TryBroadcast(n, given, request_id, status, error_message) ==
    IF given = BroadcastParameters
    THEN broadcast_request_updated(n, request_id, status, error_message)
    ELSE n

\* POST /admin/requests/{request_id}/retry: the status update, the put on the
\* queue and the broadcast of the update.
Retry(request_id) ==
    /\ phase = "running"
    /\ ops < MaxOps
    /\ Exists(request_id)
    /\ RetryAllowed(requests[request_id].status)
    /\ Len(queue) + 1 <= MaxQueue
    /\ requests' = [requests EXCEPT ![request_id] = update_status(@, QUEUED, NoMsg)]
    /\ queue' = PutAll(queue, <<request_id>>)
    /\ unfinished' = unfinished + 1
    /\ notes' = TryBroadcast(notes, RetryBroadcastArguments, request_id, QUEUED, NoMsg)
    /\ ops' = ops + 1
    /\ UNCHANGED <<permits, capacity, wk, settings, phase, limit, boots, client_instance>>

\* The ids of a batch retry that are updated and queued: those that are Failed.
ids_to_process(request_ids) == SelectSeq(request_ids, LAMBDA id : requests[id].status = FAILED)

\* The results a batch retry reports: success for the ids updated, failed for
\* the listed ids that are not Failed (or not found).
results(request_ids) ==
    [success |-> ids_to_process(request_ids),
     failed |-> SelectSeq(request_ids, LAMBDA id : requests[id].status # FAILED)]

\* The broadcasts of a batch retry: one call for each id updated.
RECURSIVE BatchBroadcast(_, _)
BatchBroadcast(n, ids) ==
    IF ids = <<>> THEN n
    ELSE BatchBroadcast(TryBroadcast(n, RetryBroadcastArguments, Head(ids), QUEUED, NoMsg),
                        Tail(ids))

\* The request_ids lists a batch may carry: distinct ids in any order.
BatchLists == UNION {Orders(S) : S \in SUBSET Ids \ {{}}}

\* POST /admin/requests/batch with action "retry".
BatchRetry(request_ids) ==
    /\ phase = "running"
    /\ ops < MaxOps
    /\ Len(queue) + Len(ids_to_process(request_ids)) <= MaxQueue
    /\ requests' = [id \in Ids |->
                       IF \E i \in 1..Len(request_ids) : request_ids[i] = id /\ requests[id].status = FAILED
                       THEN update_status(requests[id], QUEUED, NoMsg)
                       ELSE requests[id]]
    /\ queue' = PutAll(queue, ids_to_process(request_ids))
    /\ unfinished' = unfinished + Len(ids_to_process(request_ids))
    /\ notes' = BatchBroadcast(notes, ids_to_process(request_ids))
    /\ ops' = ops + 1
    /\ UNCHANGED <<permits, capacity, wk, settings, phase, limit, boots, client_instance>>

(***************************************************************************)
(* lifespan: startup and shutdown.                                         *)
(***************************************************************************)
\* Faulty variant of the reconciler's query that misses the Queued rows:
\* C11_ReconcilerFailsInterrupted tells it from Interrupted.
OnlyProcessing(row) == row.status = PROCESSING

\* Faulty variant of the reconciler's query that also selects the Failed rows:
\* C12_ReconcileIdempotent tells it from Interrupted.
InterruptedOrFailed(row) == row.status \in {PROCESSING, QUEUED, FAILED}

\* The rows the reconciler's query selects.
Interrupted(row) == row.status \in {PROCESSING, QUEUED}

RestartMsg == Msg("System restarted during processing.", "", 0)

\* Handle Interrupted Requests: each Queued or Processing row is marked Failed
\* and broadcast.
Reconcile ==
    /\ phase = "boot"
    /\ requests' = [id \in DOMAIN requests |->
                        IF Interrupted(requests[id])
                        THEN update_status(requests[id], FAILED, RestartMsg)
                        ELSE requests[id]]
    /\ notes' = [id \in DOMAIN requests |->
                     IF Interrupted(requests[id])
                     THEN Append(notes[id], [status |-> FAILED, error_message |-> RestartMsg])
                     ELSE notes[id]]
    /\ phase' = "reconciled"
    /\ UNCHANGED <<queue, unfinished, permits, capacity, wk, settings, limit, ops, boots, client_instance>>

\* initialize_analysis_semaphore: a limit below 1 becomes 1; the semaphore is
\* created with it.
initialize_analysis_semaphore(lim) == IF lim < 1 THEN 1 ELSE lim

\* Faulty variant in which _analysis_task_limit keeps its initial value while the
\* semaphore is created with the configured one: C6_GateBound tells it from
\* get_analysis_task_limit.
InitialTaskLimit(lim) == 1

\* The limit initialize_analysis_semaphore records in _analysis_task_limit, as
\* get_analysis_task_limit returns it afterwards.
get_analysis_task_limit(lim) == initialize_analysis_semaphore(lim)

\* num_workers: the configured value itself.
num_workers(lim) == lim

\* Faulty variant of the startup order in which the semaphore, queue and workers
\* do not wait for the reconciler: C13_ReconcileBeforeWorkers tells it from
\* ReconcilerDone.
ReconcilerSkipped(ph) == ph \in {"boot", "reconciled"}

\* lifespan reaches the creation of the semaphore, the queue and the workers
\* when the block that handles interrupted requests has been left.
ReconcilerDone(ph) == ph = "reconciled"

\* The semaphore, the queue and the worker tasks are created.
StartWorkers ==
    /\ ReconcilerDone(phase)
    /\ capacity' = get_analysis_task_limit(limit)
    /\ permits' = initialize_analysis_semaphore(limit)
    /\ queue' = <<>>
    /\ unfinished' = 0
    /\ wk' = [w \in Workers |-> IF w <= num_workers(limit) THEN Locals("get") ELSE Locals("unstarted")]
    /\ phase' = "running"
    /\ UNCHANGED <<requests, settings, notes, limit, ops, boots, client_instance>>

\* Shutdown begins: no further API event; the lifespan waits on queue.join().
Shutdown ==
    /\ phase = "running"
    /\ phase' = "draining"
    /\ UNCHANGED <<requests, queue, unfinished, permits, capacity, wk, settings, notes, limit, ops, boots, client_instance>>

\* The join returns or its 30 s pass: every worker task is cancelled.
CancelWorkers ==
    /\ phase = "draining"
    /\ phase' = "stopping"
    /\ UNCHANGED <<requests, queue, unfinished, permits, capacity, wk, settings, notes, limit, ops, boots, client_instance>>

(***************************************************************************)
(* Specifications.                                                         *)
(***************************************************************************)
Flags == [openai_api_key : {NoKey, 1}, openai_base_url : {NoUrl},
          openai_model : BOOLEAN, system_prompt : BOOLEAN]

Settings(par, tot, f) ==
    [parallel |-> par, total |-> tot, openai_api_key |-> f.openai_api_key,
     openai_base_url |-> f.openai_base_url,
     openai_model |-> f.openai_model, system_prompt |-> f.system_prompt]

Configured == [openai_api_key |-> 1, openai_base_url |-> NoUrl,
               openai_model |-> TRUE, system_prompt |-> TRUE]

\* The whole process from a fresh database, with well-formed settings.
Init ==
    /\ requests = [id \in Ids |-> AbsentRow]
    /\ queue = <<>>
    /\ unfinished = 0
    /\ permits = 0
    /\ capacity = 1
    /\ wk = [w \in Workers |-> Locals("unstarted")]
    /\ settings \in {Settings(IntText(n), IntText(m), Configured) : n \in 1..MaxPar, m \in {MaxPar}}
    /\ notes = [id \in Ids |-> <<>>]
    /\ phase = "boot"
    /\ limit \in 1..MaxConc
    /\ ops = 0
    /\ boots = 1
    /\ client_instance = NoClient

\* What the API answers in the whole-process specification.
CoreResponses == {"json", "APITimeoutError"}

WorkerSteps(w, history) ==
    \/ Dequeue(w)
    \/ Acquire(w)
    \/ Fetch(w)
    \/ LoadSettings(w, history)
    \/ RefreshCheck(w)
    \/ UpdateProcessing(w)
    \/ NotifyProcessing(w)
    \/ \E order \in Orders(DoneTasks(w)) : Inspect(w, order, history)
    \/ FinalUpdate(w)
    \/ FinalNotify(w)
    \/ Exit(w)

WorkerStep(w) == WorkerSteps(w, FALSE)

WorkerFailure(w) ==
    \/ FetchFails(w)
    \/ LoadSettingsFails(w)
    \/ UpdateProcessingFails(w)
    \/ FinalUpdateFails(w)
    \/ Critical(w)
    \/ CriticalNotify(w)
    \/ WorkerCancelled(w)

Next ==
    \/ Reconcile
    \/ StartWorkers
    \/ CreateRequest
    \/ \E id \in Ids : Regenerate(id)
    \/ \E id \in Ids : Retry(id)
    \/ \E ids \in BatchLists : BatchRetry(ids)
    \/ Shutdown
    \/ CancelWorkers
    \/ \E w \in Workers : WorkerStep(w)
    \/ \E w \in Workers : WorkerFailure(w)
    \/ \E w \in Workers, a \in 1..MaxTot, resp \in CoreResponses : AttemptFinish(w, a, resp, FALSE)

Spec == Init /\ [][Next]_vars

\* One worker and one queued request, under every settings snapshot (a
\* parallelism of 5, above every total limit, among them) and every API answer:
\* the scheduler alone.
SchedSettings ==
    {Settings(par, tot, f) :
        par \in {Missing, BadText, IntText(5)} \cup {IntText(n) : n \in 0..MaxPar},
        tot \in {Missing, BadText} \cup {IntText(m) : m \in 0..MaxTot},
        f \in Flags}

InitSched ==
    /\ requests = [id \in Ids |-> IF id = 1 THEN Request ELSE AbsentRow]
    /\ queue = <<1>>
    /\ unfinished = 1
    /\ permits = 1
    /\ capacity = 1
    /\ wk = [w \in Workers |-> IF w = 1 THEN Locals("get") ELSE Locals("unstarted")]
    /\ settings \in SchedSettings
    /\ notes = [id \in Ids |-> <<>>]
    /\ phase = "running"
    /\ limit = 1
    /\ ops = 1
    /\ boots = 1
    /\ client_instance = NoClient

NextSched ==
    \/ \E w \in Workers : WorkerSteps(w, TRUE)
    \/ \E w \in Workers, a \in 1..MaxTot, resp \in ApiResponses : AttemptFinish(w, a, resp, TRUE)

SpecSched == InitSched /\ [][NextSched]_vars

\* One worker and one queued request under well-formed settings, with the
\* database and broadcast failures of the processing, and with fairness: the event loop runs
\* a worker that can go on, the exception handler included, and every attempt
\* call ends.
InitLive ==
    /\ requests = [id \in Ids |-> IF id = 1 THEN Request ELSE AbsentRow]
    /\ queue = <<1>>
    /\ unfinished = 1
    /\ permits = 1
    /\ capacity = 1
    /\ wk = [w \in Workers |-> IF w = 1 THEN Locals("get") ELSE Locals("unstarted")]
    /\ settings \in {Settings(IntText(n), IntText(m), Configured) : n \in 1..MaxPar, m \in 1..MaxTot}
    /\ notes = [id \in Ids |-> <<>>]
    /\ phase = "running"
    /\ limit = 1
    /\ ops = 1
    /\ boots = 1
    /\ client_instance = NoClient

\* A step of worker w's coroutine that follows from its own code.
WorkerRuns(w) == WorkerStep(w) \/ Critical(w) \/ CriticalNotify(w)

\* Some attempt of worker w ends.
AttemptEnds(w) ==
    \E a \in 1..MaxTot, resp \in CoreResponses : AttemptFinish(w, a, resp, FALSE)

NextLive ==
    \/ \E w \in Workers : WorkerRuns(w)
    \/ \E w \in Workers : FetchFails(w)
    \/ \E w \in Workers : LoadSettingsFails(w)
    \/ \E w \in Workers : UpdateProcessingFails(w)
    \/ \E w \in Workers : FinalUpdateFails(w)
    \/ \E w \in Workers : NotifyProcessingFails(w)
    \/ \E w \in Workers : FinalNotifyFails(w)
    \/ \E w \in Workers : CriticalNotifyFails(w)
    \/ \E w \in Workers : AttemptEnds(w)

Fairness == \A w \in Workers : WF_vars(WorkerRuns(w)) /\ WF_vars(AttemptEnds(w))

SpecLive == InitLive /\ [][NextLive]_vars /\ Fairness

\* crud_setting.create_or_update: the value stored under a key is replaced, and
\* the change committed.
create_or_update(key, value) ==
    /\ phase = "running"
    /\ ops < MaxOps
    /\ settings[key] # value
    /\ settings' = [settings EXCEPT ![key] = value]
    /\ ops' = ops + 1
    /\ UNCHANGED <<requests, queue, unfinished, permits, capacity, wk, notes, phase, limit, boots, client_instance>>

\* The values an administrator may store under the keys the processing reads.
SettingValues ==
    [parallel |-> {IntText(n) : n \in 1..MaxPar},
     total |-> {IntText(m) : m \in 1..MaxTot},
     openai_api_key |-> 1..MaxKeys,
     openai_base_url |-> {NoUrl, 1}]

\* Two workers and two queued requests, with changes of the settings made at
\* any moment, before, between and during the processing of the requests.
InitConf ==
    /\ requests = [id \in Ids |-> Request]
    /\ queue = <<1, 2>>
    /\ unfinished = 2
    /\ permits = 2
    /\ capacity = 2
    /\ wk = [w \in Workers |-> Locals("get")]
    /\ settings = Settings(IntText(1), IntText(MaxPar), Configured)
    /\ notes = [id \in Ids |-> <<>>]
    /\ phase = "running"
    /\ limit = 2
    /\ ops = 0
    /\ boots = 1
    /\ client_instance = NoClient

NextConf ==
    \/ \E w \in Workers : WorkerSteps(w, TRUE)
    \/ \E w \in Workers, a \in 1..MaxTot, resp \in CoreResponses : AttemptFinish(w, a, resp, FALSE)
    \/ \E key \in DOMAIN SettingValues : \E value \in SettingValues[key] : create_or_update(key, value)

SpecConf == InitConf /\ [][NextConf]_vars

\* Two workers and two queued requests, and the shutdown at any moment. The wait
\* for the queue ends after 30 s at the latest, and a cancelled worker task is
\* resumed with its CancelledError: both are certain to happen.
NextStop ==
    \/ \E w \in Workers : WorkerStep(w)
    \/ \E w \in Workers, a \in 1..MaxTot, resp \in CoreResponses : AttemptFinish(w, a, resp, FALSE)
    \/ Shutdown
    \/ CancelWorkers
    \/ \E w \in Workers : WorkerCancelled(w)

FairnessStop == WF_vars(CancelWorkers) /\ \A w \in Workers : WF_vars(WorkerCancelled(w))

SpecStop == InitConf /\ [][NextStop]_vars /\ FairnessStop

\* The process exits after its shutdown and is started again: the database
\* keeps its rows, the module globals and app.state start afresh.
Restart ==
    /\ phase = "stopping"
    /\ \A w \in Workers : wk[w].pc \in {"unstarted", "stopped"}
    /\ boots < MaxBoots
    /\ boots' = boots + 1
    /\ phase' = "boot"
    /\ wk' = [w \in Workers |-> Locals("unstarted")]
    /\ queue' = <<>>
    /\ unfinished' = 0
    /\ permits' = 0
    /\ capacity' = 1
    /\ client_instance' = NoClient
    /\ UNCHANGED <<requests, settings, notes, limit, ops>>

\* The rows a request table may hold when the process starts: none for an id,
\* or one in any status, as an earlier run of the process left it.
BootRows ==
    {AbsentRow, Request, [Request EXCEPT !.status = PROCESSING],
     [status |-> COMPLETED, error_message |-> NoMsg, gpt_raw_response |-> 1, is_success |-> TRUE],
     [status |-> FAILED, error_message |-> Msg("API call failed", "APITimeoutError", 0),
      gpt_raw_response |-> None, is_success |-> FALSE]}

\* The process starts on a table an earlier run left behind, with any integer
\* as the configured number of concurrent analysis tasks.
InitBoot ==
    /\ requests \in [1..MaxBoot -> BootRows]
    /\ queue = <<>>
    /\ unfinished = 0
    /\ permits = 0
    /\ capacity = 1
    /\ wk = [w \in Workers |-> Locals("unstarted")]
    /\ settings = Settings(IntText(1), IntText(MaxPar), Configured)
    /\ notes = [id \in 1..MaxBoot |-> <<>>]
    /\ phase = "boot"
    /\ limit \in (0 - MaxBelow)..MaxConc
    /\ ops = 0
    /\ boots = 1
    /\ client_instance = NoClient

\* Startup, shutdown and restart with no API event in between.
NextBoot ==
    \/ Reconcile
    \/ StartWorkers
    \/ Shutdown
    \/ CancelWorkers
    \/ \E w \in Workers : WorkerCancelled(w)
    \/ Restart

SpecBoot == InitBoot /\ [][NextBoot]_vars

(***************************************************************************)
(* Properties of the attempt scheduler, under SpecSched.                   *)
(***************************************************************************)
\* The attempts of worker w whose tasks are running.
RunningTasks(w) == {a \in DOMAIN wk[w].tasks : wk[w].tasks[a].st = "running"}

\* Worker w is past the terminal write of the request it holds.
Ended(w) == wk[w].pc \in {"final_notify", "exit"} /\ wk[w].tasks # <<>>

\* Attempt a of worker w returned a valid (parsed) result.
Valid(w, a) == wk[w].tasks[a].st = "done" /\ wk[w].tasks[a].out.parsed # None

\* C1: for every settings snapshot with configured M >= N >= 1, at every moment
\* of one processing at most N attempts are active (tracked in active_tasks, or
\* running) and at most M attempts have been launched.
C1_AttemptBounds ==
    \A w \in Workers :
        LET s == wk[w].db_settings
        IN  (s.parallel.k = "int" /\ s.total.k = "int" /\ 1 <= s.parallel.v
             /\ s.parallel.v <= s.total.v)
            => /\ Cardinality(wk[w].active_tasks) <= s.parallel.v
               /\ Cardinality(RunningTasks(w)) <= s.parallel.v
               /\ total_attempts_made(wk[w]) <= s.total.v

\* C1 happens: with N >= 2 and M > N, all M attempts are launched and N run.
C1_Witness ==
    \E w \in Workers :
        LET s == wk[w].db_settings
        IN  /\ s.parallel.k = "int" /\ s.total.k = "int"
            /\ 2 <= s.parallel.v /\ s.parallel.v < s.total.v
            /\ total_attempts_made(wk[w]) = s.total.v
            /\ Cardinality(RunningTasks(w)) = s.parallel.v

\* Worker w performs the terminal write of step 5 in this step.
TerminalWrite(w) == wk[w].pc = "final_update" /\ wk'[w].pc = "final_notify"

\* C2: if any attempt of a request yields a valid result, the request ends
\* Completed: a terminal write made when one of the attempts has returned a
\* valid result writes the status Completed.
C2_ValidResultCompletes ==
    [][\A w \in Workers :
          (TerminalWrite(w) /\ \E a \in DOMAIN wk[w].tasks : Valid(w, a))
          => requests'[wk[w].request_id].status = COMPLETED]_vars

\* C3: N = 2, M = 3, attempt 1 ends with a timeout, attempt 2 with invalid JSON,
\* attempt 3 returns valid JSON and completes last: the terminal write makes the
\* request Completed with attempt 3's payload and no error message.
C3_ReplacementWins ==
    [][\A w \in Workers :
        LET l == wk[w]
            row == requests'[wk[w].request_id]
        IN  (/\ TerminalWrite(w)
             /\ l.db_settings.parallel = IntText(2)
             /\ l.db_settings.total = IntText(3)
             /\ Len(l.tasks) = 3
             /\ l.tasks[1] = Task("done", Outcome(FALSE, None, FALSE, "APITimeoutError"))
             /\ l.tasks[2] = Task("done", Outcome(FALSE, None, TRUE, "none"))
             /\ l.tasks[3] = Task("done", Outcome(FALSE, 3, TRUE, "none"))
             /\ Len(l.done_order) = 3 /\ l.done_order[3] = 3)
            => /\ row.status = COMPLETED
               /\ row.gpt_raw_response = 3
               /\ row.error_message = NoMsg]_vars

\* C4: when all M attempts were launched and every one of them returned without
\* a valid result (invalid JSON, or an API error), the request ends Failed with
\* a non-empty error message, the "after M attempts" one when no attempt left a
\* message of its own.
C4_AllAttemptsFail ==
    \A w \in Workers :
        LET l == wk[w]
            M == final_total_attempts_limit(l.db_settings)
        IN  (/\ Ended(w)
             /\ Len(l.tasks) = M
             /\ \A a \in DOMAIN l.tasks : l.tasks[a].st = "done" /\ l.tasks[a].out.parsed = None)
            => /\ Row(w).status = FAILED
               /\ Row(w).error_message # NoMsg
               /\ l.final_error_message = NoMsg
                  => Row(w).error_message =
                         Msg("Failed to get valid JSON response after attempts", "", M)

\* C4 happens: M >= 2 attempts, one failing in the API call and one returning
\* invalid JSON, and the request is Failed with a message.
C4_Witness ==
    \E w \in Workers :
        LET l == wk[w]
        IN  /\ Ended(w)
            /\ Len(l.tasks) = final_total_attempts_limit(l.db_settings)
            /\ Len(l.tasks) >= 2
            /\ \A a \in DOMAIN l.tasks : l.tasks[a].st = "done" /\ l.tasks[a].out.parsed = None
            /\ \E a \in DOMAIN l.tasks : l.tasks[a].out.exc = "APITimeoutError"
            /\ \E a \in DOMAIN l.tasks : l.tasks[a].out.raw /\ l.tasks[a].out.exc = "none"
            /\ Row(w).status = FAILED
            /\ Row(w).error_message # NoMsg

\* C5 as stated: attempts 1 and 2 run concurrently and attempt 2 is the first
\* to complete, with a valid result: the stored result is attempt 2's payload and
\* attempt 1 does not run on.
C5_FirstCompletionWins ==
    \A w \in Workers :
        LET l == wk[w]
        IN  (/\ Ended(w)
             /\ Len(l.done_order) >= 1 /\ l.done_order[1] = 2
             /\ Valid(w, 2))
            => /\ Row(w).gpt_raw_response = 2
               /\ l.tasks[1].st # "running"

\* C5, amended: when the wait returns with attempt 2 as the only finished
\* attempt, its result valid, while attempt 1 is still running, that inspection
\* takes attempt 2's payload and cancels attempt 1; and the terminal write stores
\* the payload taken, with the status Completed.
C5_SoleFinisherWins ==
    [][\A w \in Workers :
          /\ (/\ wk[w].pc = "wait"
              /\ DoneTasks(w) = {2}
              /\ Valid(w, 2)
              /\ 1 \in wk[w].active_tasks
              /\ wk'[w].pc = "final_update")
             => /\ wk'[w].first_valid_result = 2
                /\ wk'[w].tasks[1].st = "cancelled"
          /\ (TerminalWrite(w) /\ wk[w].first_valid_result # None)
             => /\ requests'[wk[w].request_id].gpt_raw_response = wk[w].first_valid_result
                /\ requests'[wk[w].request_id].status = COMPLETED]_vars

\* C5 happens: the request is Completed with attempt 2's payload and attempt 1
\* was cancelled.
C5_Witness ==
    \E w \in Workers :
        /\ wk[w].pc = "final_notify"
        /\ Len(wk[w].tasks) >= 2
        /\ wk[w].tasks[1].st = "cancelled"
        /\ Valid(w, 2)
        /\ Row(w).status = COMPLETED
        /\ Row(w).gpt_raw_response = 2

\* The settings snapshot of worker w lacks the API key, the model or the prompt.
Misconfigured(w) ==
    LET s == wk[w].db_settings
    IN  ~(s.openai_api_key # NoKey /\ s.openai_model /\ s.system_prompt)

\* C17: a configuration error is not retried: once an attempt of a request
\* whose settings snapshot lacks the key, the model or the prompt has ended, no
\* further attempt is launched for that request.
C17_ConfigErrorNotRetried ==
    [][\A w \in Workers :
          (/\ wk[w].pc = "wait"
           /\ Misconfigured(w)
           /\ \E a \in DOMAIN wk[w].tasks : wk[w].tasks[a].st = "done")
          => Len(wk'[w].tasks) <= Len(wk[w].tasks)]_vars

\* C18: analyze_code never raises: every finished attempt has returned its
\* outcome tuple, whatever the settings snapshot and the API's answer.
C18_NeverRaises ==
    \A w \in Workers :
        \A a \in DOMAIN wk[w].tasks :
            wk[w].tasks[a].st = "done" => ~wk[w].tasks[a].out.raised

\* C19: with a configured total M below the parallelism N, M is raised to N:
\* when every attempt failed (under complete API settings), exactly N attempts
\* were launched.
C19_TotalRaisedToParallel ==
    \A w \in Workers :
        LET s == wk[w].db_settings
        IN  (/\ Ended(w)
             /\ ~Misconfigured(w)
             /\ s.parallel.k = "int" /\ s.total.k = "int"
             /\ 1 <= s.total.v /\ s.total.v < s.parallel.v
             /\ \A a \in DOMAIN wk[w].tasks : ~Valid(w, a))
            => total_attempts_made(wk[w]) = s.parallel.v

C14_EventuallyTerminal ==
    \A id \in Ids :
        (\E i \in DOMAIN queue : queue[i] = id)
        ~> (requests[id].status \in {COMPLETED, FAILED})

\* C15: when an exception reaches the handler of process_analysis_request for a
\* request it has loaded, the handler leaves the request Failed with an error
\* message and goes on to send the notification.
C15_ExceptionForcesFailed ==
    [][\A w \in Workers :
          (wk[w].pc = "critical" /\ wk'[w].pc # "critical")
          => /\ requests'[wk[w].request_id].status = FAILED
             /\ requests'[wk[w].request_id].error_message # NoMsg
             /\ wk'[w].pc = "critical_notify"]_vars

(***************************************************************************)
(* Properties of the whole process, under Spec.                            *)
(***************************************************************************)
\* The workers that hold a permit of the semaphore.
Inside == {w \in Workers : wk[w].pc \in InsidePcs}

\* C6: with gate capacity C, at most C workers are inside the analysis semaphore
\* at the same time.
C6_GateBound == Cardinality(Inside) <= capacity

\* C6 happens: a capacity above 1 is used up while a request waits in the queue.
C6_Witness ==
    /\ capacity >= 2
    /\ Cardinality(Inside) = capacity
    /\ queue # <<>>

\* C7: every permit acquired is released exactly once on every way out: once the
\* semaphore exists, free permits plus workers inside equal the capacity, and
\* all permits are free when no worker is inside.
C7_PermitsBalance ==
    phase \in {"running", "draining", "stopping"}
    => /\ permits + Cardinality(Inside) = capacity
       /\ Inside = {} => permits = capacity

\* C7 happens: after the normal end of one request and the cancellation of a
\* worker in the middle of another, every permit of a capacity above 1 is free.
C7_Witness ==
    /\ phase = "stopping"
    /\ capacity >= 2
    /\ \A w \in Workers : wk[w].pc = "stopped"
    /\ permits = capacity
    /\ \E id \in Ids : requests[id].status = PROCESSING
    /\ \E id \in Ids : requests[id].status \in {COMPLETED, FAILED} /\ notes[id] # <<>>

\* C8: at most one worker at a time is between the Processing transition and
\* the terminal write for a given request id.
C8_SingleLease ==
    \A w1, w2 \in Workers :
        (w1 # w2 /\ wk[w1].pc \in LeasePcs /\ wk[w2].pc \in LeasePcs)
        => wk[w1].request_id # wk[w2].request_id

\* C9: each creation, regeneration or retry event puts the affected request id
\* on the analysis queue at most once.
C9_EnqueueOnce ==
    [][ops' = ops + 1
       => \A id \in Ids :
              Cardinality({i \in DOMAIN queue' : queue'[i] = id})
              <= Cardinality({i \in DOMAIN queue : queue[i] = id}) + 1]_vars

\* C10: Completed is terminal: no step changes the status of a request whose
\* persisted status is Completed.
C10_CompletedTerminal ==
    [][\A id \in Ids : requests[id].status = COMPLETED
                       => requests'[id].status = COMPLETED]_vars


(***************************************************************************)
(* Properties of startup, under SpecBoot.                                  *)
(***************************************************************************)
\* The reconciler runs in this step.
ReconcilerRuns == phase = "boot" /\ phase' = "reconciled"

\* The notification the reconciler sends for a request.
RestartNote == [status |-> FAILED, error_message |-> RestartMsg]

C13_ReconcileBeforeWorkers ==
    /\ phase = "boot"
       => /\ \A w \in Workers : wk[w].pc = "unstarted"
          /\ queue = <<>> /\ unfinished = 0 /\ permits = 0
    /\ (\E w \in Workers : wk[w].pc # "unstarted")
       => \A id \in DOMAIN requests : ~Interrupted(requests[id])

\* C13 happens: worker loops run after a start that found interrupted requests.
C13_Witness ==
    /\ phase = "running"
    /\ \E w \in Workers : wk[w].pc = "get"
    /\ \E id \in DOMAIN requests : notes[id] = <<RestartNote>>


\* The worker loops lifespan has started.
Started == {w \in Workers : wk[w].pc # "unstarted"}

\* C26: the number of worker loops started equals the capacity of the analysis
\* semaphore, for every integer configured as the maximum of concurrent analysis
\* tasks, the values below 1 (capacity 1) included.
C26_PoolEqualsCapacity ==
    phase \in {"running", "draining"} => Cardinality(Started) = capacity

\* C16: a started worker loop survives whatever happens while it processes a
\* request: until the shutdown cancels it, no step ends the loop, and leaving
\* the processing, on any path, acknowledges the queue item and takes the loop
\* back to queue.get().
C16_WorkerSurvives ==
    [][\A w \in Workers :
          (phase \in {"running", "draining"} /\ wk[w].pc # "unstarted")
          => /\ wk'[w].pc \notin {"stopped", "unstarted"}
             /\ (wk[w].pc = "exit" /\ wk'[w].pc # "exit")
                => (wk'[w].pc = "get" /\ unfinished' = unfinished - 1)]_vars

\* C16 happens: the only worker, after the exception handler failed request 1,
\* is processing request 2.
C16_Witness ==
    /\ limit = 1
    /\ requests[1].status = FAILED
    /\ requests[1].error_message.kind = "Critical background processing error"
    /\ wk[1].request_id = 2
    /\ wk[1].pc \in LeasePcs


(***************************************************************************)
(* Properties of the notifications, under Spec.                            *)
(***************************************************************************)
\* The request_updated message for a status and an error message.
Note(status, error_message) == [status |-> status, error_message |-> error_message]

\* Worker w leaves position pc in this step.
Leaves(w, pc) == wk[w].pc = pc /\ wk'[w].pc # pc

\* C21: every status transition a worker or the reconciler performs is followed
\* by exactly one notification carrying the id and the new status and error
\* message: a worker that has written Processing, the terminal status or the
\* handler's Failed leaves that write by delivering one message with what it
\* wrote, the Processing one before the terminal one, and the reconciler delivers
\* one Failed message for each row it fails.
C21_TransitionNotified ==
    [][/\ \A w \in Workers :
              LET id == wk[w].request_id
                  M == final_total_attempts_limit(wk[w].db_settings)
              IN  /\ Leaves(w, "notify_processing")
                     => notes'[id] = Append(notes[id], Note(PROCESSING, NoMsg))
                  /\ Leaves(w, "final_notify")
                     => notes'[id] = Append(notes[id],
                                            Note(final_status(wk[w]), FinalErrorMessage(wk[w], M)))
                  /\ Leaves(w, "critical_notify")
                     => /\ Len(notes'[id]) = Len(notes[id]) + 1
                        /\ notes'[id][Len(notes'[id])].status = FAILED
       /\ (phase = "boot" /\ phase' = "reconciled")
          => \A id \in DOMAIN requests :
                 requests'[id].status # requests[id].status
                 => notes'[id] = Append(notes[id], Note(FAILED, RestartMsg))]_vars

\* C22: retrying a Failed request, through the retry endpoint or a batch retry,
\* sets it to Queued and delivers exactly one request_updated notification for
\* it, carrying the id, Queued and no error message.
C22_RetryNotifies ==
    [][\A id \in Ids :
          (ops' = ops + 1 /\ requests[id].status = FAILED /\ requests'[id].status # FAILED)
          => /\ requests'[id].status = QUEUED
             /\ notes'[id] = Append(notes[id], Note(QUEUED, NoMsg))]_vars


(***************************************************************************)
(* Properties of failing broadcasts, under SpecLive.                       *)
(***************************************************************************)
\* C23: a failing notification call never reaches the scheduler: when the
\* broadcast at the Processing transition raises (nothing is delivered), the
\* attempts are launched all the same and the loop waits for them; when the
\* broadcast at the terminal transition raises, the row stays as the terminal
\* write left it and the processing ends normally, not in the exception handler.
C23_BroadcastErrorContained ==
    [][\A w \in Workers :
          /\ (Leaves(w, "notify_processing") /\ notes' = notes)
             => /\ wk'[w].pc = "wait"
                /\ wk'[w].tasks # <<>>
                /\ \A a \in DOMAIN wk'[w].tasks : wk'[w].tasks[a].st = "running"
                /\ requests' = requests
          /\ (Leaves(w, "final_notify") /\ notes' = notes)
             => /\ wk'[w].pc = "exit"
                /\ requests' = requests]_vars

\* C23 happens: both broadcasts of request 1 raised, and the request was
\* processed to Completed with its payload stored and no message delivered.
C23_Witness ==
    /\ requests[1].status = COMPLETED
    /\ requests[1].gpt_raw_response # None
    /\ notes[1] = <<>>
    /\ wk[1].pc = "get"


(***************************************************************************)
(* Properties of the settings snapshot, under SpecConf.                    *)
(***************************************************************************)
\* The positions at which a worker holds the settings snapshot of a request.
SnapshotPcs == {"refresh", "set_processing", "notify_processing", "wait", "final_update",
                "final_notify", "critical", "critical_notify", "exit"}

\* Attempt a of worker w makes its API call in this step.
AttemptCalls(w, a) ==
    /\ a \in DOMAIN wk[w].tasks
    /\ a \in DOMAIN wk'[w].tasks
    /\ wk[w].tasks[a].st = "running"
    /\ wk'[w].tasks[a].st = "done"
    /\ CallsApi(wk[w].db_settings)

\* The client a settings snapshot asks for.
SnapshotClient(s) == Client(s.openai_api_key, s.openai_base_url)

\* C24: the snapshot is loaded once and used for N, M and every attempt of the
\* request, and a settings change made while the request is processed affects
\* none of its attempts: the snapshot stays as loaded, the attempts launched and
\* active stay within its M and N, and every API call is made with the
\* credential and endpoint of the snapshot or with a client that already existed
\* when the snapshot was loaded, never with one built from later settings.
C24_SnapshotFrame ==
    [][\A w \in Workers :
          /\ (wk[w].pc \in SnapshotPcs /\ wk'[w].pc \in SnapshotPcs)
             => wk'[w].db_settings = wk[w].db_settings
          /\ wk'[w].pc \in SnapshotPcs
             => /\ Len(wk'[w].tasks) <= final_total_attempts_limit(wk'[w].db_settings)
                /\ Cardinality(wk'[w].active_tasks) <= final_parallel_requests(wk'[w].db_settings)
          /\ \A a \in 1..MaxTot :
                 AttemptCalls(w, a)
                 => client_instance' \in {SnapshotClient(wk[w].db_settings), wk[w].client_at_load}]_vars

\* C25: settings are not cached across requests: a request's processing loads
\* the settings table as it is at that moment, and every API call of the request
\* is made by a client with the credential and the endpoint of that snapshot.
C25_SettingsNotCached ==
    [][\A w \in Workers :
          /\ (Leaves(w, "load_settings") /\ wk'[w].pc = "refresh")
             => wk'[w].db_settings = settings
          /\ \A a \in 1..MaxTot :
                 AttemptCalls(w, a) => client_instance' = SnapshotClient(wk[w].db_settings)]_vars


(***************************************************************************)
(* Properties of the shutdown, under SpecStop.                             *)
(***************************************************************************)
\* Worker w is cancelled in this step.
Cancelled(w) == wk[w].pc \notin {"unstarted", "stopped"} /\ wk'[w].pc = "stopped"

\* Every worker loop has ended (or was never started).
AllStopped == \A w \in Workers : wk[w].pc \in {"unstarted", "stopped"}

\* C27: once the shutdown has begun, the wait for the queue ends, every worker
\* loop is cancelled and every worker loop terminates. Workers are cancelled
\* only then; a worker cancelled while it holds a request leaves none of its
\* attempts running, gives back its permit if it holds one, acknowledges its
\* queue item and writes nothing: the request keeps the status it had reached,
\* Processing between the Processing write and the terminal write.
C27_ShutdownCancels ==
    /\ [][\A w \in Workers :
            Cancelled(w)
            => /\ phase = "stopping"
               /\ wk'[w].tasks = <<>> /\ wk'[w].active_tasks = {}
               /\ permits' = IF wk[w].pc \in InsidePcs THEN permits + 1 ELSE permits
               /\ unfinished' = IF wk[w].pc = "get" THEN unfinished ELSE unfinished - 1
               /\ requests' = requests
               /\ notes' = notes]_vars
    /\ (phase = "draining") ~> (phase = "stopping" /\ AllStopped)

\* C27 happens: every worker loop has ended after the shutdown, one of them
\* cancelled while it waited for its attempts: its request is still Processing,
\* with the Processing notification as its last one, and every permit is back.
C27_Witness ==
    /\ phase = "stopping"
    /\ AllStopped
    /\ permits = capacity
    /\ \E id \in Ids :
           /\ requests[id].status = PROCESSING
           /\ notes[id] = <<Note(PROCESSING, NoMsg)>>


(***************************************************************************)
(* Properties of the final error message, under SpecSched.                 *)
(***************************************************************************)
\* The errors of the API call itself that analyze_code returns.
TransportErrors == {"APIConnectionError", "RateLimitError", "APITimeoutError", "APIStatusError"}

\* C28: when the terminal write makes the request Failed after at least one
\* attempt was inspected, the message written describes the attempt inspected
\* last: the JSON-parse failure message if that attempt returned content that
\* is no JSON, "API call failed: <error kind>" with the kind of its error if
\* its API call failed; so with N = 1 and M = 1 and an API error the message
\* names the kind of that error.
C28_MessageOfLastFailure ==
    [][\A w \in Workers :
        LET l == wk[w]
            m == requests'[l.request_id].error_message
        IN  (/\ TerminalWrite(w)
             /\ requests'[l.request_id].status = FAILED
             /\ l.last_inspected # 0)
            => LET o == l.tasks[l.last_inspected].out
               IN  /\ l.tasks[l.last_inspected].st = "done"
                   /\ o.parsed = None
                   /\ (~o.raised /\ o.raw /\ o.exc = "none")
                      => m = Msg("Failed to parse valid JSON response from OpenAI.", "", 0)
                   /\ (~o.raised /\ o.exc \in TransportErrors)
                      => m = Msg("API call failed", o.exc, 0)
                   /\ (/\ final_parallel_requests(l.db_settings) = 1
                       /\ final_total_attempts_limit(l.db_settings) = 1
                       /\ l.tasks[1].out.exc \in TransportErrors)
                      => m = Msg("API call failed", l.tasks[1].out.exc, 0)]_vars

\* C28 happens: a request is Failed after an attempt that failed with a timeout
\* was inspected and then, last, an attempt that returned content that is no
\* JSON: the message is the JSON-parse failure one.
C28_Witness ==
    \E w \in Workers :
        LET l == wk[w]
        IN  /\ Ended(w)
            /\ Len(l.tasks) >= 2
            /\ l.last_inspected = 2
            /\ l.tasks[1] = Task("done", Outcome(FALSE, None, FALSE, "APITimeoutError"))
            /\ l.tasks[2] = Task("done", Outcome(FALSE, None, TRUE, "none"))
            /\ l.done_order = <<1, 2>>
            /\ Row(w).status = FAILED
            /\ Row(w).error_message = Msg("Failed to parse valid JSON response from OpenAI.", "", 0)


\* C29: a round ends Failed only after every attempt it launched has completed
\* without a valid result: when the terminal write makes the request Failed, no
\* attempt of the round is still running (to be cancelled on the way out) and
\* none has returned a valid result.
C29_FailedAfterAllAttempts ==
    [][\A w \in Workers :
          (TerminalWrite(w) /\ requests'[wk[w].request_id].status = FAILED)
          => \A a \in DOMAIN wk[w].tasks :
                 /\ wk[w].tasks[a].st = "done"
                 /\ wk[w].tasks[a].out.parsed = None]_vars


\* C30: the terminal write of a round writes exactly one of two rows: Completed
\* with the payload of the valid result the scheduler took, is_success true and
\* no error message; or Failed with no payload, is_success false and a
\* non-empty error message. It writes Completed if and only if some attempt of
\* the round has returned a valid result.
C30_TerminalWriteExclusive ==
    [][\A w \in Workers :
        LET l == wk[w]
            row == requests'[l.request_id]
        IN  TerminalWrite(w)
            => /\ \/ /\ row.status = COMPLETED
                     /\ row.gpt_raw_response # None
                     /\ row.gpt_raw_response = l.first_valid_result
                     /\ \E a \in DOMAIN l.tasks :
                            Valid(w, a) /\ l.tasks[a].out.parsed = row.gpt_raw_response
                     /\ row.is_success
                     /\ row.error_message = NoMsg
                  \/ /\ row.status = FAILED
                     /\ row.gpt_raw_response = None
                     /\ ~row.is_success
                     /\ row.error_message # NoMsg
               /\ row.status = COMPLETED <=> \E a \in DOMAIN l.tasks : Valid(w, a)]_vars


(***************************************************************************)
(* Properties of the lease a worker takes, under Spec.                     *)
(***************************************************************************)
\* Worker w launches its first attempts in this step.
Launches(w) == wk[w].tasks = <<>> /\ wk'[w].tasks # <<>>

\* Worker w moves on from its position in this step.
Steps(w) == wk'[w].pc # wk[w].pc

\* C31: a worker launches attempts for a request only after it has itself
\* moved the request from Queued or Failed to Processing: it launches from the
\* position after its Processing write, and that write finds the row Queued or
\* Failed. A worker that finds the row of the id it dequeued Processing or
\* Completed, at its first check, goes to the exit without writing a status,
\* launching an attempt or sending a note; and leaving the exit acknowledges
\* the queue item.
C31_LeaseBeforeAttempts ==
    [][\A w \in Workers :
        /\ Launches(w) => wk[w].pc = "notify_processing"
        /\ (wk[w].pc = "set_processing" /\ wk'[w].pc = "notify_processing")
           => /\ MayProcess(requests[wk[w].request_id].status)
              /\ requests'[wk[w].request_id].status = PROCESSING
        /\ (wk[w].pc = "fetch" /\ Row(w).status \in {PROCESSING, COMPLETED} /\ Steps(w))
           => /\ wk'[w].pc \in {"exit", "stopped"}
              /\ wk'[w].tasks = <<>>
              /\ requests' = requests
              /\ notes' = notes
        /\ (wk[w].pc = "exit" /\ Steps(w)) => unfinished' = unfinished - 1]_vars


(***************************************************************************)
(* Properties of the scheduling round, under SpecSched.                    *)
(***************************************************************************)
\* Worker w arrives at asyncio.wait in this step, for the first time of the
\* round or after it inspected the tasks a wait returned.
ArrivesAtWait(w) ==
    /\ wk'[w].pc = "wait"
    /\ \/ wk[w].pc = "notify_processing"
       \/ wk[w].pc = "wait" /\ wk'[w].active_tasks # wk[w].active_tasks

\* C32: each time the scheduler starts to wait for an attempt to finish, its
\* active attempts are all running and either they are exactly N or all M
\* attempts have been launched, with N and M the limits the loop uses: a failed
\* attempt is replaced before the next wait while fewer than M were launched.
C32_RefilledBeforeWait ==
    [][\A w \in Workers :
        LET l == wk'[w]
            N == final_parallel_requests(l.db_settings)
            M == final_total_attempts_limit(l.db_settings)
        IN  ArrivesAtWait(w)
            => /\ \A a \in l.active_tasks : l.tasks[a].st = "running"
               /\ l.active_tasks # {}
               /\ Cardinality(l.active_tasks) = N \/ total_attempts_made(l) = M]_vars

\* C32 happens: with N = 2 and M = 3, an attempt has failed and was inspected,
\* and the scheduler waits again with two running attempts, the replacement
\* among them.
C32_Witness ==
    \E w \in Workers :
        LET l == wk[w]
        IN  /\ l.pc = "wait"
            /\ final_parallel_requests(l.db_settings) = 2
            /\ final_total_attempts_limit(l.db_settings) = 3
            /\ Len(l.tasks) = 3
            /\ Cardinality(l.active_tasks) = 2
            /\ 3 \in l.active_tasks
            /\ \A a \in l.active_tasks : l.tasks[a].st = "running"
            /\ \E a \in DOMAIN l.tasks :
                   a \notin l.active_tasks /\ l.tasks[a].st = "done" /\ l.tasks[a].out.parsed = None


(***************************************************************************)
(* Properties of the rounds a request goes through, under Spec.            *)
(***************************************************************************)
\* Worker w begins a scheduling round in this step: it writes Processing.
BeginsRound(w) == wk[w].pc = "set_processing" /\ wk'[w].pc = "notify_processing"

\* Every event so far created a row (a creation or a regeneration): no retry
\* has been issued, so each request there is has had one event.
NoRetryIssued == ops = Cardinality({id \in Ids : Exists(id)})

\* C33: a creation, regeneration or retry event sends its request through at
\* most one scheduling round, and a request that ended Failed is not processed
\* again without a new retry: as long as no retry has been issued, a round
\* begins only for a request that is Queued, never for one that a round has
\* already taken (Processing) or ended (Failed).
C33_OneRoundPerEvent ==
    [][\A w \in Workers :
          (NoRetryIssued /\ BeginsRound(w)) => requests[wk[w].request_id].status = QUEUED]_vars


(***************************************************************************)
(* Properties of the queue's bookkeeping, under Spec.                      *)
(***************************************************************************)
\* The workers that hold a queue item: dequeued and not yet acknowledged.
Holding == {w \in Workers : wk[w].pc \notin {"unstarted", "get", "stopped"}}

\* C34: a worker acknowledges each item it dequeued exactly once, on every path
\* (round completed, request skipped, exception, cancellation): the queue's
\* unfinished count is always the number of the ids enqueued and not yet
\* acknowledged, those waiting in the queue and those a worker holds; so the
\* count is zero, and queue.join() of the shutdown returns, exactly when every
\* id enqueued has been handled.
C34_AcknowledgedOnce ==
    /\ unfinished = Len(queue) + Cardinality(Holding)
    /\ unfinished = 0 <=> (queue = <<>> /\ Holding = {})

\* C34 happens: the shutdown has begun and the join returns (no unfinished
\* item) after every event allowed has happened, one request was completed and
\* the critical handler failed another.
C34_Witness ==
    /\ phase = "draining"
    /\ unfinished = 0
    /\ ops = MaxOps
    /\ \E id \in Ids : requests[id].error_message.kind = "Critical background processing error"
    /\ \E id \in Ids : requests[id].status = COMPLETED


(***************************************************************************)
(* Properties of the retry operations, under Spec.                         *)
(***************************************************************************)
\* C35: whenever a worker waits for running attempts of a request, the
\* persisted status of that request is Processing, whatever retries and batch
\* retries the administrator issues meanwhile.
C35_ActiveMeansProcessing ==
    \A w \in Workers :
        (wk[w].pc = "wait" /\ RunningTasks(w) # {}) => Row(w).status = PROCESSING


\* The number of times id is in the queue q.
Queued(q, id) == Cardinality({i \in DOMAIN q : q[i] = id})

\* The ids a list names.
Listed(request_ids) == {request_ids[i] : i \in DOMAIN request_ids}

C37_SuccessIffCompleted ==
    \A id \in Ids :
        Exists(id)
        => ((requests[id].is_success /\ requests[id].gpt_raw_response # None)
            <=> requests[id].status = COMPLETED)



\* C38: in every reachable state a request has an error message if and only if
\* its status is Failed: every write of Queued, Processing or Completed clears
\* the message and every write of Failed sets one.
C38_MessageIffFailed ==
    \A id \in Ids :
        Exists(id) => (requests[id].error_message # NoMsg <=> requests[id].status = FAILED)


(***************************************************************************)
(* Properties of one attempt, under SpecSched.                             *)
(***************************************************************************)
\* C39: for a snapshot that has the prompt, the key and the model, an attempt
\* returns exactly one kind of outcome for each answer of the API: no content
\* gives no payload and an exception; content that is no JSON gives no payload,
\* the raw text and no exception; content that parses as JSON gives a payload
\* and no exception; a connection, timeout, rate-limit or status error gives no
\* payload and that exception; payload and exception are never both set.
C39_OutcomeClassified ==
    [][\A w \in Workers, a \in 1..MaxTot, resp \in ApiResponses :
          (AttemptFinish(w, a, resp, TRUE) /\ CallsApi(wk[w].db_settings))
          => LET o == wk'[w].tasks[a].out
             IN  /\ ~o.raised
                 /\ resp = "empty" => (o.parsed = None /\ ~o.raw /\ o.exc # "none")
                 /\ resp = "garbage" => (o.parsed = None /\ o.raw /\ o.exc = "none")
                 /\ resp \in {"json", "null"} => (o.parsed # None /\ o.exc = "none")
                 /\ resp \in TransportErrors => (o.parsed = None /\ o.exc = resp)
                 /\ ~(o.parsed # None /\ o.exc # "none")]_vars

=============================================================================
